---- MODULE Spec2Model ----
(***************************************************************************)
(* A model of src/node-project.ts: the NodeProject constructor, the        *)
(* build-workflow job builder (createBuildWorkflow) and the dependency     *)
(* upgrade mechanism (DependenciesUpgradeMechanism).                       *)
(*                                                                         *)
(* An optional value of the TypeScript source (x?: T) is the empty tuple   *)
(* when it is undefined and the one-element tuple <<v>> when it is v.      *)
(***************************************************************************)
EXTENDS Naturals, Sequences, FiniteSets, TLC

VARIABLES
  options,    \* the NodeProjectOptions handed to the constructor
  call,       \* the NodeBuildWorkflowOptions of a later createBuildWorkflow call
  pc,         \* "new" | "done" | "failed" | "called"
  project,    \* the NodeProject being assembled, with its collaborators
  callError,  \* the error thrown by the createBuildWorkflow call ("" if none)
  bindLog,    \* every invocation of DependenciesUpgradeMechanism.bind so far
  assembled   \* the error and the depsUpgrade option of every constructor run so far

vars == <<options, call, pc, project, callError, bindLog, assembled>>

-----------------------------------------------------------------------------
(* Bounds of the model.                                                    *)

\* longest caller-supplied step list (preCheckoutSteps, preBuildSteps, postSteps)
MaxSteps == 2

\* number of projects assembled one after the other in SpecMulti
MaxProjects == 3

-----------------------------------------------------------------------------
(* Optional values and JavaScript truthiness.                              *)

Undefined == <<>>

Def(v) == <<v>>

IsDefined(x) == x # Undefined

\* x ?? d
OrElse(x, d) == IF x = Undefined THEN d ELSE x[1]

\* truthiness of an optional boolean: undefined and false are falsy
TruthyBool(x) == x = Def(TRUE)

\* truthiness of an optional string: undefined and "" are falsy
TruthyStr(x) == x # Undefined /\ x[1] # ""

\* truthiness of an optional object or array: only undefined is falsy
TruthyObj(x) == x # Undefined

OptBool == {Undefined, Def(TRUE), Def(FALSE)}

\* every sequence over S of length at most n
SeqsUpTo(S, n) == UNION {[1..k -> S] : k \in 0..n}

-----------------------------------------------------------------------------
(* Errors.  The source throws a plain Error at each site; the sites are    *)
(* named by the option or collaborator their message names.                *)

NoError == ""

ErrNpmignore == ".npmignore is not defined"
ErrDefaultReleaseBranch == "defaultReleaseBranch is required"
ErrNoGithub == "no github support"
ErrIssueComment == "issue_comment should not be used as a trigger"
ErrReleaseToNpm == "releaseToNpm is not supported"
ErrReleaseBranches == "releaseBranches is not supported"
ErrReleaseEveryCommit == "releaseEveryCommit is not supported"
ErrReleaseSchedule == "releaseSchedule is not supported"
ErrDependabotAndDepsUpgrade == "dependabot cannot be configured together with depsUpgrade"

\* invalid or contradictory options
ConfigurationError ==
  { ErrNpmignore, ErrDefaultReleaseBranch, ErrIssueComment, ErrReleaseToNpm,
    ErrReleaseBranches, ErrReleaseEveryCommit, ErrReleaseSchedule,
    ErrDependabotAndDepsUpgrade }

\* a required collaborator is absent
PreconditionError == { ErrNoGithub }

-----------------------------------------------------------------------------
(* Workflow steps: { name, id?, if?, run? | uses?, with?, env? }.          *)
(* with and env are sets of <<key, value>> pairs.                          *)

RunStep(name, run) ==
  [ name |-> name, id |-> Undefined, if |-> Undefined, uses |-> Undefined,
    run |-> Def(run), with |-> {}, env |-> {} ]

UsesStep(name, uses, with) ==
  [ name |-> name, id |-> Undefined, if |-> Undefined, uses |-> Def(uses),
    run |-> Undefined, with |-> with, env |-> {} ]

-----------------------------------------------------------------------------
(* NodeProject.installWorkflowSteps and NodeProject.runTaskCommand.        *)

InstallWorkflowSteps(p) ==
  (IF TruthyStr(p.nodeVersion)
     THEN << UsesStep("Setup Node.js", "actions/setup-node@v1",
                      {<<"node-version", p.nodeVersion[1]>>}) >>
     ELSE << >>)
  \o << RunStep("Install dependencies", p.installCommand) >>

RunTaskCommand(p, task) ==
  IF p.npmTaskExecution = "projen"
    THEN p.projenCommand \o " " \o task
    ELSE p.runScriptCommand \o " " \o task

-----------------------------------------------------------------------------
(* NodeProject.createBuildWorkflow(name, options).                         *)

\* { CI: 'true', ...options.env }: a key of options.env replaces the default
JobEnv(w) ==
  LET extra == OrElse(w.env, {})
  IN  {e \in {<<"CI", "true">>} : \A x \in extra : x[1] # e[1]} \cup extra

\* the anti-tamper steps if options.antitamperDisabled were not looked at
AntitamperSteps_IgnoreDisabled(p, w) ==
  IF ~p.antitamper
    THEN << >>
    ELSE << RunStep("Anti-tamper check", "git diff --ignore-space-at-eol --exit-code") >>

AntitamperSteps(p, w) ==
  IF TruthyBool(w.antitamperDisabled) \/ ~p.antitamper
    THEN << >>
    ELSE << RunStep("Anti-tamper check", "git diff --ignore-space-at-eol --exit-code") >>

CheckoutStep(w) ==
  UsesStep("Checkout", "actions/checkout@v2",
           IF TruthyObj(w.checkoutWith) THEN w.checkoutWith[1] ELSE {})

GitIdentityStep ==
  RunStep("Set git identity",
          "git config user.name Automation; git config user.email github-actions@github.com")

BuildStep(p) == RunStep("Build", RunTaskCommand(p, p.buildTask))

CodeCovSteps_NoJestCheck(p, w) ==
  IF TruthyBool(w.codeCov) \/ TruthyStr(w.codeCovTokenSecret)
    THEN << UsesStep("Upload coverage to Codecov", "codecov/codecov-action@v1",
                     IF TruthyStr(w.codeCovTokenSecret)
                       THEN { <<"token", "${{ secrets." \o w.codeCovTokenSecret[1] \o " }}">>,
                              <<"directory", "coverage">> }
                       ELSE { <<"directory", "coverage">> }) >>
    ELSE << >>

CodeCovSteps(p, w) ==
  IF (TruthyBool(w.codeCov) \/ TruthyStr(w.codeCovTokenSecret)) /\ TruthyObj(p.jest)
    THEN << UsesStep("Upload coverage to Codecov", "codecov/codecov-action@v1",
                     IF TruthyStr(w.codeCovTokenSecret)
                       THEN { <<"token", "${{ secrets." \o w.codeCovTokenSecret[1] \o " }}">>,
                              <<"directory", p.jest[1].coverageDirectory>> }
                       ELSE { <<"directory", p.jest[1].coverageDirectory>> }) >>
    ELSE << >>

JobSteps_PostBeforeBuild(p, w) ==
  OrElse(w.preCheckoutSteps, << >>)
  \o << CheckoutStep(w) >>
  \o InstallWorkflowSteps(p)
  \o AntitamperSteps(p, w)
  \o << GitIdentityStep >>
  \o OrElse(w.preBuildSteps, << >>)
  \o OrElse(w.postSteps, << >>)
  \o << BuildStep(p) >>
  \o CodeCovSteps(p, w)
  \o AntitamperSteps(p, w)

JobSteps_NoTrailingAntitamper(p, w) ==
  OrElse(w.preCheckoutSteps, << >>)
  \o << CheckoutStep(w) >>
  \o InstallWorkflowSteps(p)
  \o AntitamperSteps(p, w)
  \o << GitIdentityStep >>
  \o OrElse(w.preBuildSteps, << >>)
  \o << BuildStep(p) >>
  \o CodeCovSteps(p, w)
  \o OrElse(w.postSteps, << >>)

JobSteps(p, w) ==
  OrElse(w.preCheckoutSteps, << >>)
  \o << CheckoutStep(w) >>
  \o InstallWorkflowSteps(p)
  \o AntitamperSteps(p, w)
  \o << GitIdentityStep >>
  \o OrElse(w.preBuildSteps, << >>)
  \o << BuildStep(p) >>
  \o CodeCovSteps(p, w)
  \o OrElse(w.postSteps, << >>)
  \o AntitamperSteps(p, w)

Job(p, w) ==
  [ runsOn      |-> "ubuntu-latest",
    env         |-> JobEnv(w),
    permissions |-> w.permissions,
    if          |-> w.condition,
    steps       |-> JobSteps(p, w),
    container   |-> IF TruthyStr(w.image) THEN Def([image |-> w.image[1]]) ELSE Undefined ]

\* github.addWorkflow(name): a workflow with no trigger and no job
NewWorkflow(name) == [ name |-> name, on |-> {}, jobs |-> << >> ]

\* one entry of project.calls: the options of a createBuildWorkflow call, the error
\* it threw and the index in project.workflows of the workflow it added (0: none)
CallRecord(w, error, index) == [ options |-> w, error |-> error, workflow |-> index ]

ThrowFromBuild(p, w, error, index) ==
  [ project |-> [p EXCEPT !.calls = Append(@, CallRecord(w, error, index))],
    error   |-> error ]

TriggerRejected_Never(w) == FALSE

\* options.trigger && options.trigger.issue_comment
TriggerRejected(w) == TruthyObj(w.trigger) /\ "issue_comment" \in w.trigger[1]

\* workflow.on(events): the events are added to the triggers the workflow has
On(triggers, events) == triggers \cup events

\* createBuildWorkflow without the workflow.on({ workflowDispatch: {} }) of line 912
CreateBuildWorkflow_NoDispatch(p, name, w) ==
  IF ~p.github
    THEN ThrowFromBuild(p, w, ErrNoGithub, 0)
    ELSE
      LET added == [p EXCEPT !.workflows = Append(@, NewWorkflow(name))]
          index == Len(added.workflows)
      IN  IF TriggerRejected(w)
            THEN ThrowFromBuild(added, w, ErrIssueComment, index)
            ELSE
              LET on  == IF TruthyObj(w.trigger) THEN On({}, w.trigger[1]) ELSE {}
                  job == [ id |-> w.jobId, job |-> Job(p, w) ]
              IN  [ project |->
                      [added EXCEPT
                         !.workflows[index].on   = on,
                         !.workflows[index].jobs = Append(@, job),
                         !.calls = Append(@, CallRecord(w, NoError, index))],
                    error |-> NoError ]

\* the result is the project after the call and the error thrown ("" if none)
CreateBuildWorkflow(p, name, w) ==
  IF ~p.github
    THEN ThrowFromBuild(p, w, ErrNoGithub, 0)
    ELSE
      LET added == [p EXCEPT !.workflows = Append(@, NewWorkflow(name))]
          index == Len(added.workflows)
      IN  IF TriggerRejected(w)
            THEN ThrowFromBuild(added, w, ErrIssueComment, index)
            ELSE
              LET filtered == IF TruthyObj(w.trigger) THEN On({}, w.trigger[1]) ELSE {}
                  on  == On(filtered, {"workflowDispatch"})
                  job == [ id |-> w.jobId, job |-> Job(p, w) ]
              IN  [ project |->
                      [added EXCEPT
                         !.workflows[index].on   = on,
                         !.workflows[index].jobs = Append(@, job),
                         !.calls = Append(@, CallRecord(w, NoError, index))],
                    error |-> NoError ]

-----------------------------------------------------------------------------
(* DependenciesUpgradeMechanism.                                           *)
(* kind is the binder the private constructor was given, ignoreProjen its  *)
(* _ignoresProjen argument; fresh tells an instance the constructor of     *)
(* NodeProject made for itself from one an outside caller made and passed  *)
(* in (which several projects may be handed).                              *)

Mechanism(kind, ignoreProjen, fresh) ==
  [ kind |-> kind, ignoreProjen |-> ignoreProjen, fresh |-> fresh ]

\* DependenciesUpgradeMechanism.NONE
NONE == Mechanism("none", Def(TRUE), FALSE)

\* DependenciesUpgradeMechanism.dependabot(options)
Dependabot(ignoreProjen, fresh) == Mechanism("dependabot", ignoreProjen, fresh)

\* DependenciesUpgradeMechanism.githubWorkflow(options)
GithubWorkflowUpgrade(ignoreProjen, fresh) == Mechanism("githubWorkflow", ignoreProjen, fresh)

\* get ignoresProjen(): this._ignoresProjen ?? true
IgnoresProjen(m) == OrElse(m.ignoreProjen, TRUE)

\* new UpgradeDependencies(project, options), as far as this file sets its options
UpgradeDependencies(taskName, include, ignoreProjen, workflow, schedule, secret, labels) ==
  [ taskName |-> taskName, include |-> include, ignoreProjen |-> ignoreProjen,
    workflow |-> workflow, schedule |-> schedule, secret |-> secret, labels |-> labels ]

Bind_Twice(m, p) ==
  [p EXCEPT !.bound = @ \o <<m, m>>, !.events = Append(@, "bind")]

\* bind(project): runs the binder the mechanism was built with
Bind(m, p) ==
  LET q == [p EXCEPT !.bound = Append(@, m), !.events = Append(@, "bind")]
  IN  CASE m.kind = "none" -> q
        [] m.kind = "dependabot" ->
             IF q.github
               THEN [q EXCEPT !.dependabot = Def([ignoreProjen |-> m.ignoreProjen])]
               ELSE q
        [] m.kind = "githubWorkflow" ->
             [q EXCEPT !.upgrades = Append(@,
                UpgradeDependencies("upgrade-dependencies", Undefined, m.ignoreProjen,
                                    Undefined, Undefined, Undefined, Undefined))]

-----------------------------------------------------------------------------
(* The NodeProject constructor.                                            *)

PROJEN_SCRIPT == "projen"
PROJEN_RC == ".projenrc.js"
PROJEN_DIR == ".projen"
PROJEN_VERSION == "0.0.0"
STANDARD_VERSION == "standard-version@^9"

\* the patterns of addDefaultGitIgnore (its comment lines left out)
DefaultGitIgnore ==
  { "logs", "*.log", "npm-debug.log*", "yarn-debug.log*", "yarn-error.log*",
    "lerna-debug.log*", "report.[0-9]*.[0-9]*.[0-9]*.[0-9]*.json", "pids", "*.pid",
    "*.seed", "*.pid.lock", "lib-cov", "coverage", "*.lcov", ".nyc_output",
    "build/Release", "node_modules/", "jspm_packages/", "*.tsbuildinfo",
    ".eslintcache", "*.tgz", ".yarn-integrity", ".cache" }

Range(seq) == {seq[i] : i \in 1..Len(seq)}

Throw(p, error) == [p EXCEPT !.error = error]

Event(p, e) == [p EXCEPT !.events = Append(@, e)]

\* super(options) and new NodePackage(this, options): the project before the
\* constructor's own statements.  n numbers the projects in order of assembly.
NewProject(o, n) ==
  [ index            |-> n,
    error            |-> NoError,
    parent           |-> o.parent,
    github           |-> ~o.parent,
    mergify          |-> ~o.parent /\ OrElse(o.mergify, TRUE),
    packageName      |-> o.packageName,
    license          |-> IF OrElse(o.licensed, TRUE) THEN Def("Apache-2.0") ELSE Undefined,
    minNodeVersion   |-> o.minNodeVersion,
    npmTaskExecution |-> o.npmTaskExecution,
    packageManager   |-> o.packageManager,
    projenCommand    |-> "npx projen",
    installCommand   |-> CASE o.packageManager = "yarn" -> "yarn install --check-files"
                           [] o.packageManager = "npm"  -> "npm install"
                           [] o.packageManager = "pnpm" -> "pnpm i",
    runScriptCommand |-> "",
    nodeVersion      |-> Undefined,
    env              |-> {},
    tasks            |-> << >>,
    spawns           |-> {},
    buildTask        |-> "",
    buildSteps       |-> << >>,
    scripts          |-> {},
    npmignore        |-> Undefined,
    gitignore        |-> {},
    gitinclude       |-> {},
    devDeps          |-> {},
    components       |-> << "NodePackage" >>,
    antitamper       |-> FALSE,
    jest             |-> Undefined,
    workflows        |-> << >>,
    calls            |-> << >>,
    buildWorkflow    |-> 0,
    buildWorkflowJobId |-> Undefined,
    release          |-> Undefined,
    autoMerge        |-> Undefined,
    dependabot       |-> Undefined,
    upgrades         |-> << >>,
    bound            |-> << >>,
    pullRequestTemplate |-> FALSE,
    events           |-> << "NodePackage" >> ]

\* lines 408-452: runScriptCommand, nodeVersion, PATH and the four tasks
AddTasks(p, o) ==
  LET q == [p EXCEPT
              !.runScriptCommand = CASE p.packageManager = "npm"  -> "npm run"
                                     [] p.packageManager = "yarn" -> "yarn run"
                                     [] p.packageManager = "pnpm" -> "pnpm run",
              !.nodeVersion = IF IsDefined(o.workflowNodeVersion)
                                THEN o.workflowNodeVersion ELSE p.minNodeVersion,
              !.env    = @ \cup {"PATH"},
              !.tasks  = @ \o <<"compile", "test:compile", "test", "build">>,
              !.spawns = @ \cup {<<"test", "test:compile">>},
              !.buildTask = "build",
              !.events = @ \o <<"task:compile", "task:test:compile", "task:test", "task:build">>]
  IN  IF OrElse(o.projenDuringBuild, TRUE) /\ ~p.parent
        THEN [q EXCEPT !.buildSteps = Append(@, q.projenCommand)]
        ELSE q

\* addLicense
AddLicense(p, o) ==
  IF IsDefined(p.license)
    THEN [p EXCEPT !.components = Append(@, "License"), !.events = Append(@, "License")]
    ELSE p

\* lines 459-469: .npmignore, the default .gitignore and options.gitignore
AddIgnoreFiles(p, o) ==
  LET q == IF OrElse(o.npmignoreEnabled, TRUE)
             THEN [p EXCEPT !.npmignore = Def({}), !.events = Append(@, "npmignore")]
             ELSE p
  IN  [q EXCEPT !.gitignore = @ \cup DefaultGitIgnore \cup Range(OrElse(o.gitignore, << >>))]

\* options.npmignore?.length
HasNpmignorePatterns(o) == IsDefined(o.npmignore) /\ Len(o.npmignore[1]) > 0

NpmignoreExclude(p, patterns) ==
  IF IsDefined(p.npmignore)
    THEN [p EXCEPT !.npmignore = Def(@[1] \cup patterns)]
    ELSE p

\* lines 476-493: the .npmignore patterns, the scripts and the projen dependency
AddProjen(p, o) ==
  LET a == NpmignoreExclude(p, Range(OrElse(o.npmignore, << >>)))
      b == [a EXCEPT !.scripts = @ \cup {PROJEN_SCRIPT, "start"},
                     !.events  = @ \o <<"script:projen", "script:start">>]
      c == NpmignoreExclude(b, {"/" \o PROJEN_RC, "/" \o PROJEN_DIR})
      d == [c EXCEPT !.gitinclude = @ \cup {"/" \o PROJEN_RC}]
  IN  IF OrElse(o.projenDevDependency, TRUE)
        THEN [d EXCEPT !.devDeps = @ \cup {"projen@" \o OrElse(o.projenVersion, "^" \o PROJEN_VERSION)}]
        ELSE d

BuildEnabled(p, o) == OrElse(o.buildWorkflow, IF p.parent THEN FALSE ELSE TRUE)

\* lines 499-510: the antitamper flag and jest
ConfigureJest(p, o) ==
  LET a == [p EXCEPT !.antitamper = BuildEnabled(p, o) /\ OrElse(o.antitamper, TRUE)]
  IN  IF OrElse(o.jest, TRUE)
        THEN [a EXCEPT !.jest = Def([coverageDirectory |-> "coverage"]),
                       !.components = Append(@, "Jest"),
                       !.events = Append(@, "Jest")]
        ELSE a

\* the three self-mutation steps of the PR build (updateRepo)
UpdateRepo ==
  << [RunStep("Check for changes",
              "git diff --exit-code || echo ::set-output name=has_changes::true")
        EXCEPT !.id = Def("git_diff")],
     [RunStep("Commit and push changes (if changed)",
              "git add . && git commit -m chore: self mutation && git push origin HEAD:${{ github.event.pull_request.head.ref }}")
        EXCEPT !.if = Def("steps.git_diff.outputs.has_changes")],
     [RunStep("Update status check (if changed)",
              "gh api -X POST /repos/${{ github.event.pull_request.head.repo.full_name }}/check-runs -F name=build -F head_sha=$(git rev-parse HEAD) -F status=completed -F conclusion=success")
        EXCEPT !.if = Def("steps.git_diff.outputs.has_changes"),
               !.env = {<<"GITHUB_TOKEN", "${{ secrets.GITHUB_TOKEN }}">>}] >>

\* the options with the self-mutation steps passed for mutable builds only
BuildWorkflowOptions_PostOnlyMutable(o) ==
  LET mutableBuilds == OrElse(o.mutableBuild, TRUE)
  IN  [ jobId              |-> "build",
        image              |-> o.workflowContainerImage,
        condition          |-> Undefined,
        trigger            |-> Def({"pull_request"}),
        codeCov            |-> Def(OrElse(o.codeCov, FALSE)),
        codeCovTokenSecret |-> o.codeCovTokenSecret,
        preBuildSteps      |-> Undefined,
        preCheckoutSteps   |-> Undefined,
        postSteps          |-> IF mutableBuilds THEN Def(UpdateRepo) ELSE Undefined,
        checkoutWith       |-> IF mutableBuilds
                                 THEN Def({ <<"ref", "${{ github.event.pull_request.head.ref }}">>,
                                            <<"repository", "${{ github.event.pull_request.head.repo.full_name }}">> })
                                 ELSE Undefined,
        antitamperDisabled |-> Def(mutableBuilds),
        env                |-> Undefined,
        permissions        |-> {<<"checks", "write">>, <<"contents", "write">>} ]

\* the options without the trigger filter of line 562
BuildWorkflowOptions_NoTrigger(o) ==
  LET mutableBuilds == OrElse(o.mutableBuild, TRUE)
  IN  [ jobId              |-> "build",
        image              |-> o.workflowContainerImage,
        condition          |-> Undefined,
        trigger            |-> Undefined,
        codeCov            |-> Def(OrElse(o.codeCov, FALSE)),
        codeCovTokenSecret |-> o.codeCovTokenSecret,
        preBuildSteps      |-> Undefined,
        preCheckoutSteps   |-> Undefined,
        postSteps          |-> Def(UpdateRepo),
        checkoutWith       |-> IF mutableBuilds
                                 THEN Def({ <<"ref", "${{ github.event.pull_request.head.ref }}">>,
                                            <<"repository", "${{ github.event.pull_request.head.repo.full_name }}">> })
                                 ELSE Undefined,
        antitamperDisabled |-> Def(mutableBuilds),
        env                |-> Undefined,
        permissions        |-> {<<"checks", "write">>, <<"contents", "write">>} ]

\* the options the constructor hands to createBuildWorkflow (lines 560-580)
BuildWorkflowOptions(o) ==
  LET mutableBuilds == OrElse(o.mutableBuild, TRUE)
  IN  [ jobId              |-> "build",
        image              |-> o.workflowContainerImage,
        condition          |-> Undefined,
        trigger            |-> Def({"pull_request"}),
        codeCov            |-> Def(OrElse(o.codeCov, FALSE)),
        codeCovTokenSecret |-> o.codeCovTokenSecret,
        preBuildSteps      |-> Undefined,
        preCheckoutSteps   |-> Undefined,
        postSteps          |-> Def(UpdateRepo),
        checkoutWith       |-> IF mutableBuilds
                                 THEN Def({ <<"ref", "${{ github.event.pull_request.head.ref }}">>,
                                            <<"repository", "${{ github.event.pull_request.head.repo.full_name }}">> })
                                 ELSE Undefined,
        antitamperDisabled |-> Def(mutableBuilds),
        env                |-> Undefined,
        permissions        |-> {<<"checks", "write">>, <<"contents", "write">>} ]

\* lines 512-584
AddBuildWorkflow(p, o) ==
  IF BuildEnabled(p, o)
    THEN LET r == CreateBuildWorkflow(Event(p, "createBuildWorkflow"), "Build",
                                      BuildWorkflowOptions(o))
         IN  IF r.error # NoError
               THEN Throw(r.project, r.error)
               ELSE [r.project EXCEPT !.buildWorkflow = Len(r.project.workflows),
                                      !.buildWorkflowJobId = Def("build")]
    ELSE p

ReleaseEnabled(p, o) == OrElse(o.releaseWorkflow, IF p.parent THEN FALSE ELSE TRUE)

AddRelease_NoValidation(p, o) ==
  IF ReleaseEnabled(p, o)
    THEN [p EXCEPT
            !.devDeps = @ \cup {STANDARD_VERSION},
            !.release = Def([ task |-> p.buildTask,
                              releaseWorkflowSetupSteps |->
                                InstallWorkflowSteps(p) \o OrElse(o.releaseWorkflowSetupSteps, << >>),
                              publishToNpm |-> OrElse(o.releaseToNpm, FALSE) ]),
            !.components = Append(@, "Release"),
            !.events = Append(@, "Release")]
    ELSE p

\* lines 586-625
AddRelease(p, o) ==
  IF ReleaseEnabled(p, o)
    THEN [p EXCEPT
            !.devDeps = @ \cup {STANDARD_VERSION},
            !.release = Def([ task |-> p.buildTask,
                              releaseWorkflowSetupSteps |->
                                InstallWorkflowSteps(p) \o OrElse(o.releaseWorkflowSetupSteps, << >>),
                              publishToNpm |-> OrElse(o.releaseToNpm, FALSE) ]),
            !.components = Append(@, "Release"),
            !.events = Append(@, "Release")]
    ELSE IF TruthyBool(o.releaseToNpm) THEN Throw(p, ErrReleaseToNpm)
    ELSE IF TruthyObj(o.releaseBranches) THEN Throw(p, ErrReleaseBranches)
    ELSE IF TruthyBool(o.releaseEveryCommit) THEN Throw(p, ErrReleaseEveryCommit)
    ELSE IF TruthyStr(o.releaseSchedule) THEN Throw(p, ErrReleaseSchedule)
    ELSE p

\* lines 627-633
AddAutoMerge(p, o) ==
  IF p.github /\ p.mergify
    THEN NpmignoreExclude(
           [p EXCEPT !.autoMerge = Def([ buildJob |-> p.buildWorkflowJobId,
                                         autoMergeLabel |-> OrElse(o.mergifyAutoMergeLabel, "auto-merge") ]),
                     !.components = Append(@, "AutoMerge"),
                     !.events = Append(@, "AutoMerge")],
           {"/.mergify.yml"})
    ELSE p

UpgradeConflict_Never(o) == FALSE

\* options.dependabot !== undefined && options.depsUpgrade
UpgradeConflict(o) == IsDefined(o.dependabot) /\ TruthyObj(o.depsUpgrade)

DependenciesUpgrade_NoDependabot(o) ==
  OrElse(o.depsUpgrade, GithubWorkflowUpgrade(Undefined, TRUE))

\* lines 639-641: options.depsUpgrade ?? (dependabot ? dependabot() : githubWorkflow())
DependenciesUpgrade(o) ==
  OrElse(o.depsUpgrade,
         IF OrElse(o.dependabot, FALSE)
           THEN Dependabot(Undefined, TRUE)
           ELSE GithubWorkflowUpgrade(Undefined, TRUE))

AutoMergeLabel(p) == IF IsDefined(p.autoMerge) THEN p.autoMerge[1].autoMergeLabel ELSE ""

UpgradeProjen_Always(p, o, m) ==
  [p EXCEPT !.upgrades = Append(@,
     UpgradeDependencies("upgrade-projen", Def(<<"projen">>), Def(FALSE),
                         Def(TruthyStr(o.projenUpgradeSecret)),
                         Def(OrElse(o.projenUpgradeSchedule, <<"0 6 * * *">>)),
                         o.projenUpgradeSecret,
                         Def(IF OrElse(o.projenUpgradeAutoMerge, TRUE) /\ AutoMergeLabel(p) # ""
                               THEN <<AutoMergeLabel(p)>> ELSE << >>)))]

\* lines 644-662: the upgrade pipeline for projen itself
UpgradeProjen(p, o, m) ==
  IF IgnoresProjen(m) /\ p.packageName # "projen"
    THEN [p EXCEPT !.upgrades = Append(@,
            UpgradeDependencies("upgrade-projen", Def(<<"projen">>), Def(FALSE),
                                Def(TruthyStr(o.projenUpgradeSecret)),
                                Def(OrElse(o.projenUpgradeSchedule, <<"0 6 * * *">>)),
                                o.projenUpgradeSecret,
                                Def(IF OrElse(o.projenUpgradeAutoMerge, TRUE) /\ AutoMergeLabel(p) # ""
                                      THEN <<AutoMergeLabel(p)>> ELSE << >>)))]
    ELSE p

\* lines 664-671: the pull request template and .projenrc.js
AddProjenrc(p, o) ==
  LET a == IF OrElse(o.pullRequestTemplate, TRUE) /\ p.github
             THEN [p EXCEPT !.pullRequestTemplate = TRUE]
             ELSE p
  IN  IF OrElse(o.projenrcJs, TRUE)
        THEN [a EXCEPT !.components = Append(@, "Projenrc"), !.events = Append(@, "Projenrc")]
        ELSE a

\* the constructor: the project it leaves behind; error names the throw that ended it
MissingDefaultReleaseBranch_Never(o) == FALSE

\* lines 495-497: !options.defaultReleaseBranch (undefined and '' are both falsy)
MissingDefaultReleaseBranch(o) == ~TruthyStr(o.defaultReleaseBranch)

\* the constructor with jest configured after the build workflow and the
\* auto-merge policy created before it
NodeProject_Reordered(o, n) ==
  LET p1 == AddIgnoreFiles(AddLicense(AddTasks(NewProject(o, n), o), o), o)
  IN  IF HasNpmignorePatterns(o) /\ ~IsDefined(p1.npmignore) THEN Throw(p1, ErrNpmignore) ELSE
      LET p2 == AddProjen(p1, o)
      IN  IF MissingDefaultReleaseBranch(o) THEN Throw(p2, ErrDefaultReleaseBranch) ELSE
          LET p3 == ConfigureJest(AddBuildWorkflow(AddAutoMerge(p2, o), o), o)
          IN  IF p3.error # NoError THEN p3 ELSE
              LET p4 == AddRelease(p3, o)
              IN  IF p4.error # NoError THEN p4 ELSE
                  IF UpgradeConflict(o) THEN Throw(p4, ErrDependabotAndDepsUpgrade) ELSE
                  LET m  == DependenciesUpgrade(o)
                  IN  AddProjenrc(UpgradeProjen(Bind(m, p4), o, m), o)

NodeProject(o, n) ==
  LET p1 == AddIgnoreFiles(AddLicense(AddTasks(NewProject(o, n), o), o), o)
  IN  IF HasNpmignorePatterns(o) /\ ~IsDefined(p1.npmignore) THEN Throw(p1, ErrNpmignore) ELSE
      LET p2 == AddProjen(p1, o)
      IN  IF MissingDefaultReleaseBranch(o) THEN Throw(p2, ErrDefaultReleaseBranch) ELSE
          LET p3 == AddBuildWorkflow(ConfigureJest(p2, o), o)
          IN  IF p3.error # NoError THEN p3 ELSE
              LET p4 == AddRelease(p3, o)
              IN  IF p4.error # NoError THEN p4 ELSE
                  LET p5 == AddAutoMerge(p4, o)
                  IN  IF UpgradeConflict(o) THEN Throw(p5, ErrDependabotAndDepsUpgrade) ELSE
                      LET m  == DependenciesUpgrade(o)
                      IN  AddProjenrc(UpgradeProjen(Bind(m, p5), o, m), o)

-----------------------------------------------------------------------------
(* Inputs.                                                                 *)

\* the options every field of which is left unset, but the required ones
DefaultOptions ==
  [ parent                |-> FALSE,
    mergify               |-> Undefined,
    packageName           |-> "my-app",
    packageManager        |-> "yarn",
    npmTaskExecution      |-> "projen",
    licensed              |-> Undefined,
    minNodeVersion        |-> Undefined,
    workflowNodeVersion   |-> Undefined,
    projenDuringBuild     |-> Undefined,
    npmignoreEnabled      |-> Undefined,
    npmignore             |-> Undefined,
    gitignore             |-> Undefined,
    projenDevDependency   |-> Undefined,
    projenVersion         |-> Undefined,
    defaultReleaseBranch  |-> Def("main"),
    buildWorkflow         |-> Undefined,
    mutableBuild          |-> Undefined,
    antitamper            |-> Undefined,
    jest                  |-> Undefined,
    codeCov               |-> Undefined,
    codeCovTokenSecret    |-> Undefined,
    workflowContainerImage |-> Undefined,
    releaseWorkflow       |-> Undefined,
    releaseToNpm          |-> Undefined,
    releaseBranches       |-> Undefined,
    releaseEveryCommit    |-> Undefined,
    releaseSchedule       |-> Undefined,
    releaseWorkflowSetupSteps |-> Undefined,
    mergifyAutoMergeLabel |-> Undefined,
    dependabot            |-> Undefined,
    depsUpgrade           |-> Undefined,
    projenUpgradeSecret   |-> Undefined,
    projenUpgradeAutoMerge |-> Undefined,
    projenUpgradeSchedule |-> Undefined,
    pullRequestTemplate   |-> Undefined,
    projenrcJs            |-> Undefined ]

\* an optional string: unset, empty or a name
OptStr(name) == {Undefined, Def(""), Def(name)}

\* an optional list: unset, empty or holding an entry
OptList(entry) == {Undefined, Def(<< >>), Def(<<entry>>)}

\* the mechanisms a caller can pass as depsUpgrade
CallerMechanisms ==
  {NONE} \cup {Dependabot(i, FALSE) : i \in OptBool}
         \cup {GithubWorkflowUpgrade(i, FALSE) : i \in OptBool}

\* the options that decide which of the constructor's checks fails first
EarlyOptions ==
  { [DefaultOptions EXCEPT !.parent = a, !.buildWorkflow = b,
                           !.defaultReleaseBranch = c,
                           !.npmignoreEnabled = d[1], !.npmignore = d[2]] :
      a \in BOOLEAN, b \in OptBool, c \in {Undefined, Def(""), Def("main")},
      d \in {<<Undefined, Undefined>>, <<Def(FALSE), Def(<<"dist">>)>>} }

ReleaseOptions ==
  { [x EXCEPT !.releaseWorkflow = a, !.releaseToNpm = b, !.releaseBranches = c,
              !.releaseEveryCommit = d, !.releaseSchedule = e] :
      x \in EarlyOptions, a \in OptBool, b \in OptBool, c \in OptList("main"),
      d \in OptBool, e \in OptStr("0 0 * * *") }

UpgradeOptions ==
  { [DefaultOptions EXCEPT !.parent = a[1], !.buildWorkflow = a[2],
                           !.dependabot = b, !.depsUpgrade = c,
                           !.packageName = d, !.projenUpgradeSecret = e,
                           !.projenUpgradeAutoMerge = f, !.projenUpgradeSchedule = g,
                           !.mergify = h[1], !.mergifyAutoMergeLabel = h[2]] :
      a \in {<<FALSE, Undefined>>, <<TRUE, Undefined>>, <<TRUE, Def(TRUE)>>},
      b \in OptBool, c \in {Undefined} \cup {Def(m) : m \in CallerMechanisms},
      d \in {"my-app", "projen"}, e \in OptStr("PROJEN_GITHUB_TOKEN"),
      f \in OptBool, g \in {Undefined, Def(<<"0 0 * * 1">>)},
      h \in {<<Undefined, Undefined>>, <<Def(FALSE), Undefined>>,
             <<Undefined, Def("")>>, <<Undefined, Def("automerge")>>} }

BuildOptions ==
  { [DefaultOptions EXCEPT !.parent = x[1], !.buildWorkflow = x[2],
                           !.mutableBuild = a, !.antitamper = b, !.jest = c,
                           !.codeCov = d, !.codeCovTokenSecret = e,
                           !.workflowNodeVersion = f[1], !.minNodeVersion = f[2],
                           !.workflowContainerImage = g] :
      x \in BOOLEAN \X OptBool, a \in OptBool, b \in OptBool, c \in OptBool,
      d \in OptBool, e \in OptStr("CODECOV_TOKEN"),
      f \in {<<Undefined, Undefined>>, <<Def("14.0.0"), Def("12.0.0")>>},
      g \in {Undefined, Def("node:14")} }

NodeProjectOptions == ReleaseOptions \cup UpgradeOptions \cup BuildOptions

-----------------------------------------------------------------------------
(* Actions.                                                                *)

\* new NodeProject(options)
NewNodeProject ==
  /\ pc = "new"
  /\ LET p == NodeProject(options, Len(assembled) + 1)
     IN  /\ project' = p
         /\ pc' = IF p.error = NoError THEN "done" ELSE "failed"
         /\ bindLog' = bindLog \o [i \in 1..Len(p.bound) |->
                                     [project |-> p.index, mechanism |-> p.bound[i]]]
         /\ assembled' = Append(assembled, [error |-> p.error, depsUpgrade |-> options.depsUpgrade])
  /\ UNCHANGED <<options, call, callError>>

\* project.createBuildWorkflow(call.name, call.options) on an assembled project
CallCreateBuildWorkflow ==
  /\ pc = "done"
  /\ IsDefined(call)
  /\ LET r == CreateBuildWorkflow(project, call[1].name, call[1].options)
     IN  /\ project' = r.project
         /\ callError' = r.error
  /\ pc' = "called"
  /\ UNCHANGED <<options, call, bindLog, assembled>>

\* a caller goes on to assemble another project, with options o
NextOptions(o) ==
  /\ pc \in {"done", "failed"}
  /\ Len(assembled) < MaxProjects
  /\ options' = o
  /\ pc' = "new"
  /\ UNCHANGED <<call, project, callError, bindLog, assembled>>

InitWith(O, C) ==
  /\ options \in O
  /\ call \in C
  /\ pc = "new"
  /\ project = << >>
  /\ callError = NoError
  /\ bindLog = << >>
  /\ assembled = << >>

\* the options of a createBuildWorkflow call every field of which is left unset
DefaultCall ==
  [ jobId              |-> "ci",
    image              |-> Undefined,
    condition          |-> Undefined,
    trigger            |-> Undefined,
    codeCov            |-> Undefined,
    codeCovTokenSecret |-> Undefined,
    preBuildSteps      |-> Undefined,
    preCheckoutSteps   |-> Undefined,
    postSteps          |-> Undefined,
    checkoutWith       |-> Undefined,
    antitamperDisabled |-> Undefined,
    env                |-> Undefined,
    permissions        |-> {<<"contents", "read">>} ]

\* the steps a caller puts in its lists
UserSteps == { RunStep("Lint", "yarn lint"), RunStep("Notify", "yarn notify") }

StepLists == {Undefined} \cup {Def(l) : l \in SeqsUpTo(UserSteps, MaxSteps)}

\* calls that differ in their step lists
StepCalls ==
  { Def([ name |-> "CI",
          options |-> [DefaultCall EXCEPT !.preCheckoutSteps = a, !.preBuildSteps = b,
                                          !.postSteps = c, !.antitamperDisabled = d,
                                          !.codeCov = e] ]) :
      a \in StepLists, b \in StepLists, c \in StepLists,
      d \in {Undefined, Def(TRUE)}, e \in {Undefined, Def(TRUE)} }

\* the projects the calls of StepCalls are made on
StepProjects ==
  { [DefaultOptions EXCEPT !.antitamper = a, !.workflowNodeVersion = b] :
      a \in {Undefined, Def(FALSE)}, b \in {Undefined, Def("14.0.0")} }

Triggers ==
  { Undefined, Def({}), Def({"pull_request"}), Def({"push", "pull_request"}),
    Def({"issue_comment"}), Def({"push", "issue_comment"}) }

\* calls that differ in everything but their step lists
FieldCalls ==
  { Def([ name |-> "CI",
          options |-> [DefaultCall EXCEPT !.trigger = a, !.antitamperDisabled = b,
                                          !.codeCov = c, !.codeCovTokenSecret = d,
                                          !.image = e[1], !.checkoutWith = e[2],
                                          !.env = f[1], !.condition = f[2],
                                          !.postSteps = g] ]) :
      a \in Triggers, b \in OptBool, c \in OptBool, d \in OptStr("CODECOV_TOKEN"),
      e \in {<<Undefined, Undefined>>, <<Def("node:14"), Def({<<"ref", "main">>})>>},
      f \in {<<Undefined, Undefined>>, <<Def({<<"CI", "false">>}), Def("always()")>>},
      g \in {Undefined, Def(UpdateRepo)} }

\* the projects the calls of FieldCalls are made on; a subproject has no GitHub
FieldProjects ==
  { [DefaultOptions EXCEPT !.parent = a, !.antitamper = b, !.jest = c] :
      a \in BOOLEAN, b \in {Undefined, Def(FALSE)}, c \in {Undefined, Def(FALSE)} }

\* the options of the projects assembled one after the other
MultiOptions ==
  { [DefaultOptions EXCEPT !.dependabot = a, !.depsUpgrade = b] :
      a \in OptBool,
      b \in { Undefined, Def(NONE), Def(Dependabot(Undefined, FALSE)),
              Def(GithubWorkflowUpgrade(Def(FALSE), FALSE)) } }

\* one assembly, over the options of NodeProject
Init == InitWith(NodeProjectOptions, {Undefined})

Next == NewNodeProject

Spec == Init /\ [][Next]_vars

\* one assembly, then one call of createBuildWorkflow on the project
InitBuild == InitWith(StepProjects, StepCalls) \/ InitWith(FieldProjects, FieldCalls)

NextBuild == NewNodeProject \/ CallCreateBuildWorkflow

SpecBuild == InitBuild /\ [][NextBuild]_vars

\* up to MaxProjects assemblies in a row, sharing the mechanisms they are handed
InitMulti == InitWith(MultiOptions, {Undefined})

NextMulti == NewNodeProject \/ \E o \in MultiOptions : NextOptions(o)

SpecMulti == InitMulti /\ [][NextMulti]_vars

-----------------------------------------------------------------------------
(* Vocabulary of the properties.                                           *)

Assembled == pc \in {"done", "failed", "called"}

Succeeded == pc \in {"done", "called"}

\* the calls of createBuildWorkflow made on the project so far, the constructor's
\* own call included
Calls == IF Assembled THEN Range(project.calls) ELSE {}

\* the jobs the call c added
JobsOf(c) == IF c.workflow = 0 THEN << >> ELSE project.workflows[c.workflow].jobs

StepsOf(c) == JobsOf(c)[1].job.steps

Names(steps) == [i \in 1..Len(steps) |-> steps[i].name]

CountNamed(steps, name) == Cardinality({i \in 1..Len(steps) : steps[i].name = name})

\* the number of install steps: 'Setup Node.js' is there only with a node version
InstallCount == IF TruthyStr(project.nodeVersion) THEN 2 ELSE 1

\* steps is pre, Checkout, the install steps, na anti-tamper steps, 'Set git
\* identity', build, Build, nc coverage steps, post, na anti-tamper steps
InCategoryOrder(steps, pre, build, post, na, nc) ==
  LET a == Len(pre) + 1              \* Checkout
      b == a + InstallCount          \* the last install step
      c == b + na + 1                \* Set git identity
      d == c + Len(build) + 1        \* Build
      e == d + nc + Len(post)        \* the last post step
  IN  /\ Len(steps) = e + na
      /\ SubSeq(steps, 1, Len(pre)) = pre
      /\ steps[a].name = "Checkout"
      /\ steps[b].name = "Install dependencies"
      /\ InstallCount = 2 => steps[a + 1].name = "Setup Node.js"
      /\ na = 1 => steps[b + 1].name = "Anti-tamper check"
      /\ steps[c].name = "Set git identity"
      /\ SubSeq(steps, c + 1, c + Len(build)) = build
      /\ steps[d].name = "Build"
      /\ nc = 1 => steps[d + 1].name = "Upload coverage to Codecov"
      /\ SubSeq(steps, d + nc + 1, e) = post
      /\ na = 1 => steps[e + 1].name = "Anti-tamper check"

-----------------------------------------------------------------------------
(* C1: the step list of every job createBuildWorkflow emits is, in this    *)
(* order: the caller's pre-checkout steps, one Checkout step, the install  *)
(* steps, the anti-tamper list, one 'Set git identity' step, the caller's  *)
(* pre-build steps, one Build step, the optional coverage upload, the      *)
(* caller's post steps and the anti-tamper list again; the caller's lists  *)
(* keep their own order.                                                   *)
C1_StepOrder ==
  \A c \in Calls :
    c.error = NoError =>
      /\ Len(JobsOf(c)) = 1
      /\ \E na \in {0, 1}, nc \in {0, 1} :
           InCategoryOrder(StepsOf(c),
                           OrElse(c.options.preCheckoutSteps, << >>),
                           OrElse(c.options.preBuildSteps, << >>),
                           OrElse(c.options.postSteps, << >>), na, nc)

\* a job with two pre-checkout, two pre-build and two post steps, each list in an
\* order of its own, with the anti-tamper and the coverage steps
C1_Witness ==
  /\ pc = "called"
  /\ callError = NoError
  /\ \E c \in Calls :
       /\ c.error = NoError
       /\ Len(OrElse(c.options.preCheckoutSteps, << >>)) = 2
       /\ Len(OrElse(c.options.preBuildSteps, << >>)) = 2
       /\ Names(OrElse(c.options.postSteps, << >>)) = <<"Notify", "Lint">>
       /\ Names(c.options.preBuildSteps[1]) = <<"Lint", "Notify">>
       /\ CountNamed(StepsOf(c), "Anti-tamper check") = 2
       /\ CountNamed(StepsOf(c), "Upload coverage to Codecov") = 1

-----------------------------------------------------------------------------
(* C2: a job createBuildWorkflow emits holds no or two 'Anti-tamper check' *)
(* steps, never one; the two are the step right after the install steps    *)
(* and the last step of the job; there is none exactly when                *)
(* antitamperDisabled is set or the project's antitamper flag is false.    *)
C2_AntitamperTwice ==
  \A c \in Calls :
    c.error = NoError =>
      LET steps == StepsOf(c)
          n     == CountNamed(steps, "Anti-tamper check")
          after == Len(OrElse(c.options.preCheckoutSteps, << >>)) + 1 + InstallCount + 1
      IN  /\ n \in {0, 2}
          /\ n = 2 => /\ steps[after].name = "Anti-tamper check"
                      /\ steps[after - 1].name = "Install dependencies"
                      /\ steps[Len(steps)].name = "Anti-tamper check"
                      /\ after < Len(steps)
          /\ n = 0 <=> (c.options.antitamperDisabled = Def(TRUE) \/ ~project.antitamper)

\* a call that emitted a job with the two checks around caller steps
C2_Witness ==
  /\ pc = "called"
  /\ \E c \in Calls :
       /\ c.error = NoError
       /\ c.options.jobId = "ci"
       /\ CountNamed(StepsOf(c), "Anti-tamper check") = 2
       /\ Len(OrElse(c.options.postSteps, << >>)) = 2

-----------------------------------------------------------------------------
(* C3, as stated: a call of createBuildWorkflow whose trigger filter holds *)
(* 'issue_comment' fails with a ConfigurationError whatever its other      *)
(* options, and adds no job.                                               *)
C3_AsStated ==
  \A c \in Calls :
    (IsDefined(c.options.trigger) /\ "issue_comment" \in c.options.trigger[1]) =>
      /\ c.error \in ConfigurationError
      /\ JobsOf(c) = << >>

(* C3, amended: such a call always fails and adds no job; on a project     *)
(* with GitHub support the error is the ConfigurationError about           *)
(* issue_comment, on a project without it the call has failed before with  *)
(* the PreconditionError 'no github support'.                              *)
C3_IssueCommentRejected ==
  \A c \in Calls :
    (IsDefined(c.options.trigger) /\ "issue_comment" \in c.options.trigger[1]) =>
      /\ c.error = (IF project.github THEN ErrIssueComment ELSE ErrNoGithub)
      /\ c.error \in ConfigurationError \cup PreconditionError
      /\ JobsOf(c) = << >>
      /\ \A i \in 1..Len(project.workflows) :
           Len(project.workflows[i].jobs) =
             Cardinality({k \in 1..Len(project.calls) :
                            /\ project.calls[k].workflow = i
                            /\ project.calls[k].error = NoError})

\* a rejected call that set every other field, on a project with GitHub support
C3_Witness ==
  /\ pc = "called"
  /\ callError = ErrIssueComment
  /\ project.github
  /\ \E c \in Calls :
       /\ c.error = ErrIssueComment
       /\ c.options.trigger = Def({"push", "issue_comment"})
       /\ IsDefined(c.options.image)
       /\ IsDefined(c.options.env)
       /\ c.options.codeCov = Def(TRUE)
       /\ c.options.antitamperDisabled = Def(FALSE)

-----------------------------------------------------------------------------
(* The release options of a project whose release workflow is disabled.    *)

ReleaseDisabled ==
  options.releaseWorkflow = Def(FALSE)
    \/ (options.releaseWorkflow = Undefined /\ options.parent)

ReleaseOptionSet ==
  \/ options.releaseToNpm = Def(TRUE)
  \/ (IsDefined(options.releaseBranches) /\ Len(options.releaseBranches[1]) > 0)
  \/ options.releaseEveryCommit = Def(TRUE)
  \/ (IsDefined(options.releaseSchedule) /\ options.releaseSchedule[1] # "")

(* C4, as stated: with the release workflow disabled, an assembly with     *)
(* releaseToNpm = true, a non-empty releaseBranches, releaseEveryCommit =  *)
(* true or a non-empty releaseSchedule ends in a ConfigurationError for    *)
(* every combination of the other options, and creates no Release.         *)
C4_AsStated ==
  (Assembled /\ ReleaseDisabled /\ ReleaseOptionSet) =>
    /\ pc = "failed"
    /\ project.error \in ConfigurationError
    /\ project.release = Undefined

(* C4, amended: such an assembly always fails and creates no Release; the  *)
(* error is a ConfigurationError, except that a project without GitHub     *)
(* support whose build workflow is enabled has failed before with the      *)
(* PreconditionError 'no github support'.                                  *)
C4_ReleaseOptionsRejected ==
  (Assembled /\ ReleaseDisabled /\ ReleaseOptionSet) =>
    /\ pc = "failed"
    /\ project.release = Undefined
    /\ "Release" \notin Range(project.components)
    /\ project.error \in ConfigurationError \cup PreconditionError
    /\ project.error \in PreconditionError =>
         (options.parent /\ options.buildWorkflow = Def(TRUE))
    /\ (options.parent /\ options.buildWorkflow = Def(TRUE)) =>
         project.error \in {ErrNpmignore, ErrDefaultReleaseBranch, ErrNoGithub}

\* the scenario of the specification: releaseWorkflow false with releaseToNpm true
C4_Witness ==
  /\ pc = "failed"
  /\ options.releaseWorkflow = Def(FALSE)
  /\ options.releaseToNpm = Def(TRUE)
  /\ options.buildWorkflow = Def(TRUE)
  /\ options.defaultReleaseBranch = Def("main")
  /\ project.error = ErrReleaseToNpm

-----------------------------------------------------------------------------
(* C5: a failed assembly has changed no collaborator: no task, script,     *)
(* ignore pattern, dev dependency, test-framework configuration, workflow  *)
(* or job registered before the failing check is left behind.              *)
C5_NoPartialState ==
  pc = "failed" =>
    /\ project.tasks = << >>
    /\ project.scripts = {}
    /\ project.gitignore = {}
    /\ project.npmignore \in {Undefined, Def({})}
    /\ project.devDeps = {}
    /\ project.jest = Undefined
    /\ project.workflows = << >>

-----------------------------------------------------------------------------
(* C6, as stated: an assembly with both dependabot and depsUpgrade set     *)
(* raises a ConfigurationError and binds no mechanism; one with only one   *)
(* of them set is not rejected by this rule.                               *)
C6_AsStated ==
  Assembled =>
    /\ (IsDefined(options.dependabot) /\ IsDefined(options.depsUpgrade)) =>
         /\ pc = "failed"
         /\ project.error \in ConfigurationError
         /\ project.bound = << >>
    /\ (IsDefined(options.dependabot) # IsDefined(options.depsUpgrade)) =>
         project.error # ErrDependabotAndDepsUpgrade

(* C6, amended: an assembly with both set always fails and binds no        *)
(* mechanism; the error is a ConfigurationError, except that a project     *)
(* without GitHub support whose build workflow is enabled has failed       *)
(* before with the PreconditionError 'no github support'; an assembly with *)
(* only one of the two set is not rejected by this rule.                   *)
C6_UpgradeConflictRejected ==
  Assembled =>
    /\ (IsDefined(options.dependabot) /\ IsDefined(options.depsUpgrade)) =>
         /\ pc = "failed"
         /\ project.bound = << >>
         /\ bindLog = << >>
         /\ project.error \in ConfigurationError \cup PreconditionError
         /\ project.error \in PreconditionError =>
              (options.parent /\ options.buildWorkflow = Def(TRUE))
         /\ (options.parent /\ options.buildWorkflow = Def(TRUE)) =>
              project.error \in {ErrNpmignore, ErrDefaultReleaseBranch, ErrNoGithub}
    /\ (IsDefined(options.dependabot) # IsDefined(options.depsUpgrade)) =>
         project.error # ErrDependabotAndDepsUpgrade

\* dependabot: false next to a depsUpgrade mechanism is rejected as well
C6_Witness ==
  /\ pc = "failed"
  /\ options.dependabot = Def(FALSE)
  /\ options.depsUpgrade = Def(NONE)
  /\ project.error = ErrDependabotAndDepsUpgrade
  /\ IsDefined(project.autoMerge)

-----------------------------------------------------------------------------
(* C7: a successful assembly binds exactly one mechanism: depsUpgrade when *)
(* it is supplied; otherwise a dependabot mechanism when dependabot is     *)
(* true; otherwise the githubWorkflow mechanism with default options.      *)
C7_MechanismSelected ==
  Succeeded =>
    /\ Len(project.bound) = 1
    /\ project.bound[1].kind \in {"none", "dependabot", "githubWorkflow"}
    /\ IsDefined(options.depsUpgrade) =>
         project.bound[1] = options.depsUpgrade[1]
    /\ (~IsDefined(options.depsUpgrade) /\ options.dependabot = Def(TRUE)) =>
         /\ project.bound[1].kind = "dependabot"
         /\ project.bound[1].fresh
    /\ (~IsDefined(options.depsUpgrade) /\ options.dependabot # Def(TRUE)) =>
         /\ project.bound[1].kind = "githubWorkflow"
         /\ project.bound[1].ignoreProjen = Undefined
         /\ project.bound[1].fresh
    /\ IsDefined(project.dependabot) <=>
         (project.bound[1].kind = "dependabot" /\ project.github)
    /\ project.bound[1].kind = "githubWorkflow" <=>
         \E i \in 1..Len(project.upgrades) :
           project.upgrades[i].taskName = "upgrade-dependencies"

\* dependabot: true with no depsUpgrade, on a project with GitHub support
C7_Witness ==
  /\ pc = "done"
  /\ options.dependabot = Def(TRUE)
  /\ options.depsUpgrade = Undefined
  /\ IsDefined(project.dependabot)
  /\ Len(bindLog) = 1

-----------------------------------------------------------------------------
C8_WitnessPresent ==
  /\ pc = "called"
  /\ IsDefined(project.jest)
  /\ \E c \in Calls :
       /\ c.error = NoError
       /\ c.options.codeCov = Undefined
       /\ c.options.codeCovTokenSecret = Def("CODECOV_TOKEN")
       /\ CountNamed(StepsOf(c), "Upload coverage to Codecov") = 1

-----------------------------------------------------------------------------
(* Instances of DependenciesUpgradeMechanism: one a constructor made for   *)
(* itself belongs to that project, one handed in by the caller (NONE       *)
(* included) is the same object in every project that is handed it.        *)

InstanceOf(entry) ==
  IF entry.mechanism.fresh THEN <<entry.project, entry.mechanism>>
                           ELSE <<0, entry.mechanism>>

BindsOf(instance) == {i \in 1..Len(bindLog) : InstanceOf(bindLog[i]) = instance}

BindsBy(n) == {i \in 1..Len(bindLog) : bindLog[i].project = n}

(* C9, as stated: over any sequence of assemblies every mechanism instance *)
(* is bound exactly once, by the project that selected it, and never a     *)
(* second time; every successful assembly invokes bind exactly once.       *)
C9_AsStated ==
  /\ \A i \in 1..Len(bindLog) : Cardinality(BindsOf(InstanceOf(bindLog[i]))) = 1
  /\ \A n \in 1..Len(assembled) :
       assembled[n].error = NoError => Cardinality(BindsBy(n)) = 1

(* C9, amended: every successful assembly invokes bind exactly once, on    *)
(* the mechanism it selected, and a failed one never; no project binds an  *)
(* instance twice, and an instance the constructor made is bound once      *)
(* only; but an instance handed to several projects (NONE, or one the      *)
(* caller made) is bound once by each of them.                             *)
C9_BoundOncePerProject ==
  /\ \A n \in 1..Len(assembled) :
       /\ Cardinality(BindsBy(n)) = IF assembled[n].error = NoError THEN 1 ELSE 0
       /\ \A i \in BindsBy(n) :
            IsDefined(assembled[n].depsUpgrade) =>
              bindLog[i].mechanism = assembled[n].depsUpgrade[1]
  /\ \A i \in 1..Len(bindLog) :
       /\ bindLog[i].project \in 1..Len(assembled)
       /\ bindLog[i].mechanism.fresh =>
            Cardinality(BindsOf(InstanceOf(bindLog[i]))) = 1
       /\ \A j \in 1..Len(bindLog) :
            (InstanceOf(bindLog[i]) = InstanceOf(bindLog[j]) /\ i # j) =>
              bindLog[i].project # bindLog[j].project
  /\ \A m \in CallerMechanisms :
       Cardinality(BindsOf(<<0, m>>)) =
         Cardinality({n \in 1..Len(assembled) :
                        /\ assembled[n].error = NoError
                        /\ assembled[n].depsUpgrade = Def(m)})

\* NONE bound by two projects, between them a project that failed and bound nothing
C9_Witness ==
  /\ Len(assembled) = 3
  /\ pc = "done"
  /\ assembled[2].error # NoError
  /\ Cardinality(BindsOf(<<0, NONE>>)) = 2
  /\ Len(bindLog) = 2

-----------------------------------------------------------------------------
(* C10: after a successful assembly the 'upgrade-projen' pipeline (include *)
(* = ['projen']) exists if and only if the bound mechanism's ignoresProjen *)
(* is true (as it is when unspecified, and for NONE) and the package is    *)
(* not 'projen'; its schedule is projenUpgradeSchedule or ['0 6 * * *'];   *)
(* its workflow is enabled only if projenUpgradeSecret is supplied; it     *)
(* carries the auto-merge label only if projenUpgradeAutoMerge is not      *)
(* false and an auto-merge policy with a label exists.                     *)
C10_UpgradeProjen ==
  Succeeded =>
    LET ups == {i \in 1..Len(project.upgrades) :
                  project.upgrades[i].taskName = "upgrade-projen"}
        m   == project.bound[1]
    IN  /\ Cardinality(ups) \in {0, 1}
        /\ ups # {} <=> (m.ignoreProjen # Def(FALSE) /\ options.packageName # "projen")
        /\ \A i \in ups :
             LET u == project.upgrades[i]
             IN  /\ u.include = Def(<<"projen">>)
                 /\ u.schedule = IF IsDefined(options.projenUpgradeSchedule)
                                   THEN options.projenUpgradeSchedule
                                   ELSE Def(<<"0 6 * * *">>)
                 /\ u.workflow = Def(TRUE) => IsDefined(options.projenUpgradeSecret)
                 /\ u.labels # Def(<< >>) =>
                      /\ options.projenUpgradeAutoMerge # Def(FALSE)
                      /\ IsDefined(project.autoMerge)
                      /\ project.autoMerge[1].autoMergeLabel # ""
                      /\ u.labels = Def(<<project.autoMerge[1].autoMergeLabel>>)

\* the pipeline under NONE, with a schedule and a secret of the caller's and the label
C10_Witness ==
  /\ pc = "done"
  /\ options.depsUpgrade = Def(NONE)
  /\ options.projenUpgradeSchedule = Def(<<"0 0 * * 1">>)
  /\ \E i \in 1..Len(project.upgrades) :
       /\ project.upgrades[i].taskName = "upgrade-projen"
       /\ project.upgrades[i].workflow = Def(TRUE)
       /\ project.upgrades[i].labels = Def(<<"automerge">>)

\* no pipeline for the package 'projen' itself and none when the mechanism does not
\* ignore projen
C10_WitnessAbsent ==
  /\ pc = "done"
  /\ options.depsUpgrade = Def(GithubWorkflowUpgrade(Def(FALSE), FALSE))
  /\ options.packageName = "my-app"
  /\ \A i \in 1..Len(project.upgrades) : project.upgrades[i].taskName # "upgrade-projen"


\* C11: an assembly whose defaultReleaseBranch is missing (undefined or empty) always
\* fails with a ConfigurationError, whatever the other options are, and the failed
\* project has no test framework, no build or release workflow, no auto-merge policy
\* and no upgrade mechanism created or bound.
C11_DefaultReleaseBranchRequired ==
  (Assembled /\ ~TruthyStr(options.defaultReleaseBranch)) =>
    /\ pc = "failed"
    /\ project.error \in ConfigurationError
    /\ ~IsDefined(project.jest)
    /\ project.workflows = << >>
    /\ project.calls = << >>
    /\ project.buildWorkflow = 0
    /\ ~IsDefined(project.release)
    /\ ~IsDefined(project.autoMerge)
    /\ ~IsDefined(project.dependabot)
    /\ project.upgrades = << >>
    /\ project.bound = << >>
    /\ bindLog = << >>
    /\ \A i \in 1..Len(project.events) :
         project.events[i] \notin {"Jest", "createBuildWorkflow", "Release", "AutoMerge", "bind"}

\* the check of lines 495-497 itself fires, on a project that asks for every later part
C11_Witness ==
  /\ pc = "failed"
  /\ options.defaultReleaseBranch = Undefined
  /\ project.error = ErrDefaultReleaseBranch
  /\ ~options.parent
  /\ options.buildWorkflow = Def(TRUE)

\* the same with an empty string as the branch name
C11_WitnessEmpty ==
  /\ pc = "failed"
  /\ options.defaultReleaseBranch = Def("")
  /\ project.error = ErrDefaultReleaseBranch


-----------------------------------------------------------------------------
\* the triggers of the workflow the call c added
TriggersOf(c) == project.workflows[c.workflow].on

\* C12: every workflow a successful createBuildWorkflow call returns has the
\* workflowDispatch trigger, with or without a caller-supplied trigger filter, and
\* has every trigger category the caller supplied as well (manual dispatch is added
\* to them, it does not replace them).
C12_ManualDispatchAdded ==
  \A c \in Calls :
    c.error = NoError =>
      /\ "workflowDispatch" \in TriggersOf(c)
      /\ IsDefined(c.options.trigger) => c.options.trigger[1] \subseteq TriggersOf(c)

\* a caller's call with a filter of two categories has returned
C12_Witness ==
  /\ pc = "called"
  /\ callError = NoError
  /\ \E c \in Calls :
       /\ c.error = NoError
       /\ c.options.trigger = Def({"push", "pull_request"})
       /\ TriggersOf(c) = {"push", "pull_request", "workflowDispatch"}

\* a caller's call without a filter has returned
C12_WitnessNoFilter ==
  /\ pc = "called"
  /\ callError = NoError
  /\ \E c \in Calls :
       /\ c.error = NoError
       /\ c.options.trigger = Undefined
       /\ TriggersOf(c) = {"workflowDispatch"}


-----------------------------------------------------------------------------
(* The PR build workflow the constructor assembles (lines 512-584).         *)

HasBuildWorkflow == Succeeded /\ project.buildWorkflow # 0

BuildWorkflow == project.workflows[project.buildWorkflow]

\* the steps of the PR build job
BuildJobSteps == BuildWorkflow.jobs[1].job.steps

\* the default scenario: only defaultReleaseBranch is given
DefaultAssembly == Succeeded /\ options = DefaultOptions

\* the part of the default scenario that is about the job
DefaultBuildJob ==
  /\ HasBuildWorkflow
  /\ BuildWorkflow.name = "Build"
  /\ Len(BuildWorkflow.jobs) = 1
  /\ BuildWorkflow.jobs[1].id = "build"
  /\ CountNamed(BuildJobSteps, "Checkout") = 1
  /\ CountNamed(BuildJobSteps, "Install dependencies") = 1
  /\ CountNamed(BuildJobSteps, "Build") = 1

(* C13 as stated: the build workflow of the default scenario has one job    *)
(* with a checkout, an install and a build step, and manual dispatch is its *)
(* only trigger.  The constructor's own trigger filter refutes the last.    *)
C13_AsStated ==
  DefaultAssembly =>
    /\ DefaultBuildJob
    /\ BuildWorkflow.on = {"workflowDispatch"}

(* C13, amended: the build workflow of the default scenario has exactly one *)
(* job, with a checkout step, one install step and a build step, and its    *)
(* triggers are pull_request, which the constructor passes, and the manual  *)
(* dispatch trigger, and no other.                                          *)
C13_DefaultBuildWorkflow ==
  DefaultAssembly =>
    /\ DefaultBuildJob
    /\ Names(BuildJobSteps) =
         << "Checkout", "Install dependencies", "Set git identity", "Build",
            "Check for changes", "Commit and push changes (if changed)",
            "Update status check (if changed)" >>
    /\ BuildWorkflow.on = {"pull_request", "workflowDispatch"}

\* the default scenario has been assembled
C13_Witness ==
  /\ pc = "done"
  /\ options = DefaultOptions
  /\ project.error = NoError
  /\ project.buildWorkflow = 1


-----------------------------------------------------------------------------
\* the number of anti-tamper steps of the PR build job
BuildAntitamperCount == CountNamed(BuildJobSteps, "Anti-tamper check")

\* mutableBuild with its default (line 500)
MutableBuilds == OrElse(options.mutableBuild, TRUE)

\* C14: whenever mutableBuild is true or left unset, the PR build job the
\* constructor assembles has no anti-tamper step, whatever the antitamper option
\* is; the job has either none or two, and it has two exactly when the build
\* workflow is enabled, antitamper is not false and mutableBuild is false.
C14_MutableBuildDisablesAntitamper ==
  HasBuildWorkflow =>
    /\ MutableBuilds => BuildAntitamperCount = 0
    /\ BuildAntitamperCount \in {0, 2}
    /\ BuildAntitamperCount = 2 <=>
         /\ OrElse(options.buildWorkflow, ~options.parent)
         /\ options.antitamper # Def(FALSE)
         /\ options.mutableBuild = Def(FALSE)

\* mutableBuild left unset and antitamper asked for: no anti-tamper step
C14_Witness ==
  /\ pc = "done"
  /\ options.mutableBuild = Undefined
  /\ options.antitamper = Def(TRUE)
  /\ project.buildWorkflow # 0
  /\ BuildAntitamperCount = 0

\* mutableBuild false, antitamper left unset: the two anti-tamper steps
C14_WitnessImmutable ==
  /\ pc = "done"
  /\ options.mutableBuild = Def(FALSE)
  /\ options.antitamper = Undefined
  /\ project.buildWorkflow # 0
  /\ BuildAntitamperCount = 2


-----------------------------------------------------------------------------
(* The order of the construction events of one assembly (project.events).   *)

Occurred(e) == Assembled /\ \E i \in 1..Len(project.events) : project.events[i] = e

\* every occurrence of a comes before every occurrence of b
Precedes(a, b) ==
  \A i, j \in 1..Len(project.events) :
    (project.events[i] = a /\ project.events[j] = b) => i < j

\* b occurs only after an occurrence of a
After(a, b) == Occurred(b) => (Occurred(a) /\ Precedes(a, b))

\* the part of the order that is about the package, jest, the build task, the
\* release and the mergify collaborator
OrderOfParts ==
  /\ project.events[1] = "NodePackage"
  /\ After("NodePackage", "script:projen") /\ After("NodePackage", "script:start")
  /\ OrElse(options.jest, TRUE) => After("Jest", "createBuildWorkflow")
  /\ ~OrElse(options.jest, TRUE) => ~Occurred("Jest")
  /\ After("task:build", "Release")
  /\ IsDefined(project.release) =>
       /\ Occurred("Release")
       /\ project.release[1].task = project.buildTask
       /\ project.buildTask = "build"
  /\ Occurred("AutoMerge") => (project.github /\ project.mergify)
  /\ ~(project.github /\ project.mergify) => ~IsDefined(project.autoMerge)

(* C15 as stated: in every assembly the package manifest handler is created *)
(* before the first script registration, the test framework (if enabled)    *)
(* before the build workflow job, the build task before the release, which  *)
(* is given that task, and the auto-merge policy only after the build       *)
(* workflow and only with the mergify collaborator present.  A root project *)
(* with the build workflow disabled gets the policy with no build workflow  *)
(* before it.                                                               *)
C15_AsStated ==
  Assembled =>
    /\ OrderOfParts
    /\ After("createBuildWorkflow", "AutoMerge")

(* C15, amended: the same order, where the auto-merge policy is created     *)
(* only with the mergify collaborator present, never before the build       *)
(* workflow, and after it whenever the build workflow is enabled; it is     *)
(* given the job id of the build workflow, which is undefined when the      *)
(* build workflow is disabled.                                              *)
C15_ConstructionOrder ==
  Assembled =>
    /\ OrderOfParts
    /\ Occurred("AutoMerge") =>
         /\ Precedes("createBuildWorkflow", "AutoMerge")
         /\ BuildEnabled(project, options) <=> Occurred("createBuildWorkflow")
         /\ IsDefined(project.autoMerge)
         /\ project.autoMerge[1].buildJob = project.buildWorkflowJobId
         /\ IsDefined(project.buildWorkflowJobId) <=> BuildEnabled(project, options)

\* an assembly with the test framework, the build workflow, the release and the
\* auto-merge policy
C15_Witness ==
  /\ pc = "done"
  /\ Occurred("Jest") /\ Occurred("createBuildWorkflow")
  /\ Occurred("Release") /\ Occurred("AutoMerge")
  /\ project.autoMerge[1].buildJob = Def("build")

\* a root project without the mergify collaborator: no auto-merge policy
C15_WitnessNoMergify ==
  /\ pc = "done"
  /\ project.github /\ ~project.mergify
  /\ Occurred("createBuildWorkflow")
  /\ ~Occurred("AutoMerge")


\* a root project with the build workflow disabled: the policy without a build job
C15_WitnessNoBuild ==
  /\ pc = "done"
  /\ options.buildWorkflow = Def(FALSE)
  /\ Occurred("AutoMerge")
  /\ ~Occurred("createBuildWorkflow")
  /\ project.autoMerge[1].buildJob = Undefined


-----------------------------------------------------------------------------
\* C16: after a successful assembly the project's antitamper flag is true if and
\* only if the build workflow the assembly generated has anti-tamper check steps.
\* The constructor sets the flag without looking at mutableBuild, which disables
\* the steps, so the flag is true on a default project whose job has none.
C16_FlagMatchesWorkflow ==
  Succeeded =>
    (project.antitamper <=> (project.buildWorkflow # 0 /\ BuildAntitamperCount > 0))


-----------------------------------------------------------------------------
\* a step list without its anti-tamper steps and without the checkout's arguments
WithoutMutableBuildParts(steps) ==
  LET kept == SelectSeq(steps, LAMBDA x : x.name # "Anti-tamper check")
  IN  [i \in 1..Len(kept) |->
         IF kept[i].name = "Checkout" THEN [kept[i] EXCEPT !.with = {}] ELSE kept[i]]

\* the project the same options assemble with the other value of mutableBuild
OtherMutableBuild ==
  NodeProject([options EXCEPT !.mutableBuild = Def(~MutableBuilds)], project.index)

C17_WitnessMutable ==
  /\ pc = "done"
  /\ options.mutableBuild = Def(TRUE)
  /\ project.buildWorkflow # 0
  /\ LET n == Len(BuildJobSteps)
     IN  /\ BuildJobSteps[n].name = "Update status check (if changed)"
         /\ BuildJobSteps[n - 1].name = "Commit and push changes (if changed)"
         /\ BuildJobSteps[1].with # {}

====
